---- MODULE Spec2Model ----
(***************************************************************************)
(* Inoperability Input-Output Model (iim/iim.py, iim/main.py).             *)
(*                                                                         *)
(* Numbers are IEEE doubles and every operation on them is rounded as     *)
(* float64 rounds it.  A double is written <<num, den>> (den a power of    *)
(* two) when it is short, <<sign, m, e>> otherwise; <<0, 0>> is nan and    *)
(* <<1, 0>>, <<-1, 0>> are +inf and -inf.  The decimal numbers of a file   *)
(* or of an argument are the doubles nearest to them.  The linear solve of *)
(* np.linalg.inv is computed for each build of the linear algebra library. *)
(* Matrices are sequences of rows; indices are 1-based here and 0-based in *)
(* the source.  Input files are well-shaped: N data rows for a pre-built   *)
(* matrix, N+1 rows (last = total output) for a raw input-output table.    *)
(***************************************************************************)
EXTENDS Integers, Sequences, FiniteSets

\* ------------------------------------------------------------------ bounds
MaxNonZero == 2    \* most non-zero flows in a table of one or two sectors
MaxPert == 2       \* longest perturbed-sector / fraction list
MaxOrder == 5      \* largest order of an n-th order query
MaxInverse == 1    \* largest power of the inverse an n-th order query asks for

\* ------------------------------------------------------- short doubles
Abs(a) == IF a < 0 THEN -a ELSE a

RECURSIVE GCD(_, _)
GCD(a, b) == IF b = 0 THEN a ELSE GCD(b, a % b)

Rat(n, d) ==
    LET g == GCD(Abs(n), Abs(d))
        s == IF d < 0 THEN -1 ELSE 1
    IN  <<(s * n) \div g, (s * d) \div g>>

Zero == <<0, 1>>
One == <<1, 1>>
NaN == <<0, 0>>

IsNaN(a) == a = NaN
IsInf(a) == Len(a) = 2 /\ a[2] = 0 /\ a[1] # 0

\* ---------------------------------------------- IEEE double arithmetic
\* Natural numbers of any size: the digits in base 2^15, lowest first, no
\* leading zero digit (a 53-bit mantissa does not fit a 32-bit integer).
LimbBits == 15
Base == 2^LimbBits
Limb(a, k) == IF k <= Len(a) THEN a[k] ELSE 0

RECURSIVE BNorm(_)
BNorm(a) ==
    IF a # <<>> /\ a[Len(a)] = 0 THEN BNorm(SubSeq(a, 1, Len(a) - 1)) ELSE a
RECURSIVE BFromInt(_)
BFromInt(n) == IF n = 0 THEN <<>> ELSE <<n % Base>> \o BFromInt(n \div Base)
RECURSIVE BToInt(_)
BToInt(a) == IF a = <<>> THEN 0 ELSE a[1] + Base * BToInt(Tail(a))

RECURSIVE BCmpAt(_, _, _)
BCmpAt(a, b, k) ==
    IF k = 0 THEN 0
    ELSE IF a[k] < b[k] THEN -1
    ELSE IF a[k] > b[k] THEN 1
    ELSE BCmpAt(a, b, k - 1)
BCmp(a, b) ==
    IF Len(a) < Len(b) THEN -1
    ELSE IF Len(a) > Len(b) THEN 1
    ELSE BCmpAt(a, b, Len(a))

RECURSIVE BAddAt(_, _, _, _)
BAddAt(a, b, k, c) ==
    IF k > Len(a) /\ k > Len(b) THEN (IF c = 0 THEN <<>> ELSE <<c>>)
    ELSE LET t == Limb(a, k) + Limb(b, k) + c
         IN  <<t % Base>> \o BAddAt(a, b, k + 1, t \div Base)
BAdd(a, b) == BAddAt(a, b, 1, 0)

\* a - b for a >= b
RECURSIVE BSubAt(_, _, _, _)
BSubAt(a, b, k, c) ==
    IF k > Len(a) THEN <<>>
    ELSE LET t == a[k] - Limb(b, k) - c
         IN  <<(t + Base) % Base>> \o BSubAt(a, b, k + 1, IF t < 0 THEN 1 ELSE 0)
BSub(a, b) == BNorm(BSubAt(a, b, 1, 0))

RECURSIVE BMulLimbAt(_, _, _, _)
BMulLimbAt(a, d, k, c) ==
    IF k > Len(a) THEN (IF c = 0 THEN <<>> ELSE <<c>>)
    ELSE LET t == a[k] * d + c
         IN  <<t % Base>> \o BMulLimbAt(a, d, k + 1, t \div Base)
RECURSIVE BMulFrom(_, _, _)
BMulFrom(a, b, j) ==
    IF j > Len(b) THEN <<>>
    ELSE BAdd(BMulLimbAt(a, b[j], 1, 0), <<0>> \o BMulFrom(a, b, j + 1))
BMul(a, b) == BNorm(BMulFrom(a, b, 1))

\* a div 2, and 2 a + bit
RECURSIVE BHalfAt(_, _)
BHalfAt(a, k) ==
    IF k > Len(a) THEN <<>>
    ELSE <<(a[k] \div 2) + (Limb(a, k + 1) % 2) * (Base \div 2)>>
         \o BHalfAt(a, k + 1)
BHalf(a) == BNorm(BHalfAt(a, 1))
RECURSIVE BTwiceAt(_, _, _)
BTwiceAt(a, k, c) ==
    IF k > Len(a) THEN (IF c = 0 THEN <<>> ELSE <<c>>)
    ELSE <<((2 * a[k]) % Base) + c>>
         \o BTwiceAt(a, k + 1, a[k] \div (Base \div 2))
BTwice(a, bit) == BTwiceAt(a, 1, bit)
RECURSIVE BShl(_, _)
BShl(a, k) ==
    IF a = <<>> \/ k = 0 THEN a
    ELSE IF k >= LimbBits THEN <<0>> \o BShl(a, k - LimbBits)
    ELSE BShl(BTwice(a, 0), k - 1)

\* a div 2^k, and whether a bit is set among the k lowest of a
RECURSIVE BHalfTimes(_, _)
BHalfTimes(a, k) == IF k = 0 THEN a ELSE BHalfTimes(BHalf(a), k - 1)
BShr(a, k) ==
    BHalfTimes(SubSeq(a, (k \div LimbBits) + 1, Len(a)), k % LimbBits)
BLow(a, k) ==
    \/ \E i \in 1..Len(a) : i <= k \div LimbBits /\ a[i] # 0
    \/ Limb(a, (k \div LimbBits) + 1) % 2^(k % LimbBits) # 0

RECURSIVE IntBits(_)
IntBits(n) == IF n = 0 THEN 0 ELSE 1 + IntBits(n \div 2)
BitLen(a) ==
    IF a = <<>> THEN 0 ELSE LimbBits * (Len(a) - 1) + IntBits(a[Len(a)])
BOdd(a) == a # <<>> /\ a[1] % 2 = 1
Bit(a, i) == (Limb(a, (i \div LimbBits) + 1) \div 2^(i % LimbBits)) % 2

\* A double is <<sign, m, e>>, the value sign * m * 2^e with m odd and of
\* at most 53 bits, or 0.0.  (Exponents stay far from the ends of the
\* range; signed zeros, subnormals and overflow do not occur.)
Mant == 53
D0 == <<1, <<>>, 0>>
D1 == <<1, <<1>>, 0>>
RECURSIVE Canon(_, _, _)
Canon(s, m, e) ==
    IF m = <<>> THEN D0
    ELSE IF m[1] = 0 THEN Canon(s, Tail(m), e + LimbBits)
    ELSE IF BOdd(m) THEN <<s, m, e>>
    ELSE Canon(s, BHalf(m), e + 1)

\* drop the k lowest bits of m, rounding to nearest, ties to even
RoundBits(m, k) ==
    LET q      == BShr(m, k)
        last   == Bit(m, k - 1)
        sticky == BLow(m, k - 1)
    IN  IF last = 1 /\ (sticky \/ BOdd(q)) THEN BAdd(q, <<1>>) ELSE q
\* the double nearest to sign * m * 2^e
fl(s, m, e) ==
    LET k == BitLen(m) - Mant
    IN  IF k <= 0 THEN Canon(s, m, e)
        ELSE Canon(s, RoundBits(m, k), e + k)

FInt(n) == Canon(IF n < 0 THEN -1 ELSE 1, BFromInt(Abs(n)), 0)
FNeg(x) == IF x = D0 THEN D0 ELSE <<-x[1], x[2], x[3]>>
FMul(x, y) ==
    IF x = D0 \/ y = D0 THEN D0
    ELSE fl(x[1] * y[1], BMul(x[2], y[2]), x[3] + y[3])
\* sign * m * 2^e for any m, rounded once together with what is added
FAdd(x, y) ==
    IF x = D0 THEN y
    ELSE IF y = D0 THEN x
    ELSE LET e == IF x[3] < y[3] THEN x[3] ELSE y[3]
             a == BShl(x[2], x[3] - e)
             b == BShl(y[2], y[3] - e)
         IN  IF x[1] = y[1] THEN fl(x[1], BAdd(a, b), e)
             ELSE IF BCmp(a, b) >= 0 THEN fl(x[1], BSub(a, b), e)
             ELSE fl(y[1], BSub(b, a), e)
FSub(x, y) == FAdd(x, FNeg(y))
\* fused multiply-add: x * y + z rounded once
FFma(x, y, z) ==
    IF x = D0 \/ y = D0 THEN z
    ELSE IF z = D0 THEN FMul(x, y)
    ELSE FAdd(<<x[1] * y[1], BMul(x[2], y[2]), x[3] + y[3]>>, z)

\* long division: bits hi..lo of n brought down into the remainder,
\* qr the quotient and the remainder so far
RECURSIVE DivBits(_, _, _, _, _)
DivBits(n, d, hi, lo, qr) ==
    IF hi < lo THEN qr
    ELSE IF hi = lo
    THEN LET r2 == BTwice(qr[2], Bit(n, hi))
         IN  IF BCmp(r2, d) >= 0
             THEN <<BTwice(qr[1], 1), BSub(r2, d)>>
             ELSE <<BTwice(qr[1], 0), r2>>
    ELSE LET mid == (hi + lo) \div 2
         IN  CHOOSE out \in {DivBits(n, d, mid, lo, upper) :
                                upper \in {DivBits(n, d, hi, mid + 1, qr)}} : TRUE
\* the same by a divisor d of one digit: digits k..1 of n, r the remainder
\* and q the quotient so far
RECURSIVE DivDigits(_, _, _, _, _)
DivDigits(n, d, k, r, q) ==
    IF k = 0 THEN <<BNorm(q), IF r = 0 THEN <<>> ELSE <<r>>>>
    ELSE LET t == r * Base + n[k]
         IN  DivDigits(n, d, k - 1, t % d, <<t \div d>> \o q)
\* x / y for y # 0: 55 or 56 bits of the quotient and one more bit that
\* says whether a remainder is left, then rounded; a division by a power
\* of two is exact
FDiv(x, y) ==
    IF x = D0 THEN D0
    ELSE IF y[2] = <<1>> THEN <<x[1] * y[1], x[2], x[3] - y[3]>>
    ELSE LET k == Mant + 2 + BitLen(y[2]) - BitLen(x[2])
             n == BShl(x[2], k)
             qr == IF Len(y[2]) = 1
                   THEN DivDigits(n, y[2][1], Len(n), 0, <<>>)
                   ELSE DivBits(n, y[2], BitLen(n) - 1, 0, <<<<>>, <<>>>>)
         IN  fl(x[1] * y[1], BTwice(qr[1], IF qr[2] = <<>> THEN 0 ELSE 1),
                x[3] - y[3] - k - 1)
\* |x| compared with |y|, and x compared with y: -1, 0, 1
FAbsCmp(x, y) ==
    IF x = D0 THEN (IF y = D0 THEN 0 ELSE -1)
    ELSE IF y = D0 THEN 1
    ELSE LET e == IF x[3] < y[3] THEN x[3] ELSE y[3]
         IN  BCmp(BShl(x[2], x[3] - e), BShl(y[2], y[3] - e))
FCmp(x, y) ==
    IF x = D0 THEN (IF y = D0 THEN 0 ELSE -y[1])
    ELSE IF y = D0 THEN x[1]
    ELSE IF x[1] # y[1] THEN x[1]
    ELSE x[1] * FAbsCmp(x, y)

\* ------------------------------------------------------- float64 values
\* A finite double is written <<num, den>>, den a power of two, where both
\* are below 2^30, and <<sign, m, e>> otherwise.  FromNumber is the long
\* form of a number and ToNumber the short form of a double where it has
\* one.
Wide == 30
FromNumber(a) == IF Len(a) = 3 THEN a ELSE FDiv(FInt(a[1]), FInt(a[2]))
ToNumber(x) ==
    IF x = D0 THEN Zero
    ELSE IF x[3] >= 0
    THEN (IF BitLen(x[2]) + x[3] <= Wide
          THEN <<x[1] * BToInt(x[2]) * 2^x[3], 1>> ELSE x)
    ELSE (IF BitLen(x[2]) <= Wide /\ -x[3] <= Wide
          THEN <<x[1] * BToInt(x[2]), 2^(-x[3])>> ELSE x)

\* float(text): the double nearest to the decimal number n/d
float(n, d) == ToNumber(FDiv(FInt(n), FInt(d)))

\* The sum, difference and product of two short doubles below 2^15 have at
\* most 31 bits, so float64 computes them without rounding, and so it does
\* their quotient when that is a short double; these are computed on the
\* short forms.  Every other operation is computed bit by bit.
RECURSIVE Pow2(_)
Pow2(d) == d = 1 \/ (d > 1 /\ d % 2 = 0 /\ Pow2(d \div 2))
Short(a) ==
    Len(a) = 2 /\ a[2] > 0 /\ a[2] < Base /\ a[1] < Base /\ -a[1] < Base
SignOf(a) ==
    IF Len(a) = 3 THEN a[1]
    ELSE IF a[1] > 0 THEN 1 ELSE IF a[1] < 0 THEN -1 ELSE 0
Neg(a) == IF Len(a) = 3 THEN FNeg(a) ELSE <<-a[1], a[2]>>

\* float addition: nan stays nan, inf - inf is nan
Add(a, b) ==
    IF Short(a) /\ Short(b)
    THEN Rat(a[1] * b[2] + b[1] * a[2], a[2] * b[2])
    ELSE IF IsNaN(a) \/ IsNaN(b) THEN NaN
    ELSE IF IsInf(a) THEN (IF IsInf(b) /\ b # a THEN NaN ELSE a)
    ELSE IF IsInf(b) THEN b
    ELSE ToNumber(FAdd(FromNumber(a), FromNumber(b)))
Sub(a, b) == Add(a, Neg(b))
\* float multiplication: inf * 0.0 is nan
Mul(a, b) ==
    IF Short(a) /\ Short(b) THEN Rat(a[1] * b[1], a[2] * b[2])
    ELSE IF IsNaN(a) \/ IsNaN(b) THEN NaN
    ELSE IF IsInf(a) \/ IsInf(b)
    THEN (IF SignOf(a) * SignOf(b) = 0 THEN NaN
          ELSE <<SignOf(a) * SignOf(b), 0>>)
    ELSE ToNumber(FMul(FromNumber(a), FromNumber(b)))
\* float division: x / 0.0 is nan for x = 0.0 and +-inf otherwise,
\* inf / inf is nan, x / inf is 0.0
Div(a, b) ==
    IF Short(a) /\ Short(b) /\ b[1] # 0 /\ Pow2(Rat(a[1] * b[2], a[2] * b[1])[2])
    THEN Rat(a[1] * b[2], a[2] * b[1])
    ELSE IF IsNaN(a) \/ IsNaN(b) THEN NaN
    ELSE IF IsInf(a)
    THEN (IF IsInf(b) THEN NaN
          ELSE <<SignOf(a) * (IF SignOf(b) < 0 THEN -1 ELSE 1), 0>>)
    ELSE IF IsInf(b) THEN Zero
    ELSE IF b = Zero
    THEN (IF a = Zero THEN NaN ELSE <<SignOf(a), 0>>)
    ELSE ToNumber(FDiv(FromNumber(a), FromNumber(b)))
\* float comparison: every comparison with nan is false, inf is above and
\* -inf below every other number
Gt(a, b) ==
    IF Short(a) /\ Short(b) THEN a[1] * b[2] > b[1] * a[2]
    ELSE IF IsNaN(a) \/ IsNaN(b) THEN FALSE
    ELSE IF IsInf(a) \/ IsInf(b)
    THEN (IF IsInf(a) THEN a[1] ELSE 0) > (IF IsInf(b) THEN b[1] ELSE 0)
    ELSE FCmp(FromNumber(a), FromNumber(b)) > 0
Lt(a, b) == Gt(b, a)
Le(a, b) == ~IsNaN(a) /\ ~IsNaN(b) /\ ~Gt(a, b)

\* ------------------------------------------------------- numpy operators
\* a sequence with its elements worked out
Tup(f) == SubSeq(f, 1, Len(f))
np_zeros(n) == [i \in 1..n |-> Zero]
np_zeros2(n, m) == [i \in 1..n |-> [j \in 1..m |-> Zero]]
np_identity(n) == [i \in 1..n |-> [j \in 1..n |-> IF i = j THEN One ELSE Zero]]
np_transpose(M) ==
    IF Len(M) = 0 THEN <<>>
    ELSE [j \in 1..Len(M[1]) |-> [i \in 1..Len(M) |-> M[i][j]]]

\* the products summed from the first to the last, every product and every
\* sum rounded
RECURSIVE DotFrom(_, _, _, _)
DotFrom(u, v, k, s) ==
    IF k > Len(u) THEN s ELSE DotFrom(u, v, k + 1, Add(s, Mul(u[k], v[k])))
Dot(u, v) == DotFrom(u, v, 1, Zero)

Column(M, j) == [i \in 1..Len(M) |-> M[i][j]]
np_matmul(A, B) ==
    Tup([i \in 1..Len(A) |-> Tup([j \in 1..Len(B[1]) |-> Dot(A[i], Column(B, j))])])
np_matvec(A, v) == Tup([i \in 1..Len(A) |-> Dot(A[i], v)])

\* -------------------------------------------------------- np.linalg.inv
\* np.linalg.inv(a) solves a x = identity with LAPACK's dgesv on doubles:
\* an LU factorisation with partial pivoting, then a forward and a backward
\* substitution for every column of the identity.  How the multipliers and
\* the updates are rounded depends on the build of the library; the builds
\* are: the column below the pivot divided by it or multiplied by its
\* reciprocal, and a - l * u rounded twice or once (fused).
BuildSeq ==
    <<[recip |-> FALSE, fma |-> FALSE], [recip |-> TRUE, fma |-> FALSE],
      [recip |-> TRUE, fma |-> TRUE]>>
Builds == 1..Len(BuildSeq)
Scal(b, p, v) == IF v.recip THEN FMul(b, FDiv(D1, p)) ELSE FDiv(b, p)
Update(a, l, u, v) ==
    IF v.fma THEN FFma(FNeg(l), u, a) ELSE FSub(a, FMul(l, u))

\* the matrix A and the matrix A - B in the long form of doubles, the
\* difference rounded
FMat(A) ==
    Tup([i \in 1..Len(A) |-> Tup([j \in 1..Len(A) |-> FromNumber(A[i][j])])])
FMatSub(A, B) ==
    Tup([i \in 1..Len(A) |-> Tup([j \in 1..Len(A) |->
        FSub(FromNumber(A[i][j]), FromNumber(B[i][j]))])])

\* the first row from j down whose entry in column j is largest in size
RECURSIVE PivotRow(_, _, _, _)
PivotRow(A, j, i, best) ==
    IF i > Len(A) THEN best
    ELSE PivotRow(A, j, i + 1,
                  IF FAbsCmp(A[i][j], A[best][j]) > 0 THEN i ELSE best)

\* LU factorisation with partial pivoting from column j on: rows swapped,
\* the column below the pivot scaled by it, the rows below updated; a
\* pivot equal to 0.0 is recorded in info and its column left alone
RECURSIVE LUFrom(_, _, _, _, _)
LUFrom(A, perm, j, info, v) ==
    IF j > Len(A) THEN [lu |-> A, perm |-> perm, info |-> info]
    ELSE LET p == PivotRow(A, j, j + 1, j)
         IN  IF A[p][j] = D0
             THEN LUFrom(A, perm, j + 1, IF info = 0 THEN j ELSE info, v)
             ELSE LET B == [A EXCEPT ![j] = A[p], ![p] = A[j]]
                      l == Tup([i \in 1..Len(A) |->
                              IF i > j THEN Scal(B[i][j], B[j][j], v) ELSE D0])
                      C == Tup([i \in 1..Len(A) |->
                              IF i <= j THEN B[i]
                              ELSE Tup([k \in 1..Len(A) |->
                                     IF k < j THEN B[i][k]
                                     ELSE IF k = j THEN l[i]
                                     ELSE Update(B[i][k], l[i], B[j][k], v)])])
                  IN  LUFrom(C, [perm EXCEPT ![j] = perm[p], ![p] = perm[j]],
                             j + 1, info, v)
dgetrf(F, v) == LUFrom(F, [i \in 1..Len(F) |-> i], 1, 0, v)

\* L y = b from the first row down, and U x = y from the last row up,
\* column by column of the triangle, skipping an entry equal to 0.0
RECURSIVE Forward(_, _, _, _)
Forward(A, b, k, v) ==
    IF k > Len(A) THEN b
    ELSE IF b[k] = D0 THEN Forward(A, b, k + 1, v)
    ELSE Forward(A, Tup([i \in 1..Len(A) |->
                     IF i > k THEN Update(b[i], b[k], A[i][k], v) ELSE b[i]]),
                 k + 1, v)
RECURSIVE Backward(_, _, _, _)
Backward(A, b, k, v) ==
    IF k = 0 THEN b
    ELSE IF b[k] = D0 THEN Backward(A, b, k - 1, v)
    ELSE \* b[k] / A[k][k], then the rows above updated with it
         CHOOSE out \in
           {Backward(A, Tup([i \in 1..Len(A) |->
                        IF i = k THEN x
                        ELSE IF i < k THEN Update(b[i], x, A[i][k], v)
                        ELSE b[i]]), k - 1, v) :
              x \in {FDiv(b[k], A[k][k])}} : TRUE
\* column c of the solution: the rows of the identity swapped as the
\* factorisation swapped them
dgetrs(f, c, v) ==
    Backward(f.lu,
             Forward(f.lu, Tup([i \in 1..Len(f.lu) |->
                                  IF f.perm[i] = c THEN D1 ELSE D0]), 1, v),
             Len(f.lu), v)
\* slip: the solved columns are stored as the rows of the solution
Solution_byRows(f, v) ==
    LET n == Len(f.lu)
        cols == Tup([c \in 1..n |-> dgetrs(f, c, v)])
    IN  [info |-> f.info, x |-> IF f.info # 0 THEN <<>> ELSE cols]
Solution(f, v) ==
    LET n == Len(f.lu)
        cols == Tup([c \in 1..n |-> dgetrs(f, c, v)])
    IN  [info |-> f.info,
         x |-> IF f.info # 0 THEN <<>>
               ELSE Tup([i \in 1..n |-> Tup([c \in 1..n |-> cols[c][i]])])]
\* info # 0 when a pivot is exactly 0.0, else the solution x in doubles
dgesv(F, v) == CHOOSE r \in {Solution(f, v) : f \in {dgetrf(F, v)}} : TRUE

\* np.linalg.inv of the matrix F of doubles on the build v: LinAlgError
\* ("Singular matrix", exc here) when the factorisation meets a pivot that
\* is exactly 0.0, else the solution of F x = identity as it was rounded
np_linalg_inv(F, v) ==
    LET r == dgesv(F, BuildSeq[v])
    IN  IF r.info # 0 THEN [exc |-> "LinAlgError", val |-> <<>>]
        ELSE [exc |-> "",
              val |-> Tup([i \in 1..Len(F) |-> Tup([j \in 1..Len(F) |->
                          ToNumber(r.x[i][j])])])]

\* the loop of np.linalg.matrix_power for n > 3: z runs through a, a^2,
\* a^4, ... and result takes the product of those whose bit is set in n,
\* from the lowest bit up (<<>> is None)
RECURSIVE BinaryPower(_, _, _, _)
BinaryPower(a, n, z, result) ==
    IF ~(n > 0) THEN result
    ELSE CHOOSE out \in
           {BinaryPower(a, n \div 2, z2,
                        IF n % 2 = 1
                        THEN (IF result = <<>> THEN z2 ELSE np_matmul(result, z2))
                        ELSE result) :
              z2 \in {IF z = <<>> THEN a ELSE np_matmul(z, z)}} : TRUE
\* slip: order 0 is treated like order 1
np_matrix_power_noZero(a, n) ==
    IF n = 0 THEN a
    ELSE IF n = 1 THEN a
    ELSE IF n = 2 THEN np_matmul(a, a)
    ELSE IF n = 3 THEN np_matmul(np_matmul(a, a), a)
    ELSE BinaryPower(a, n, <<>>, <<>>)
\* np.linalg.matrix_power(a, n) for n >= 0: the identity for 0, a itself,
\* a a and (a a) a for 1, 2 and 3, the binary decomposition above that
np_matrix_power(a, n) ==
    IF n = 0 THEN np_identity(Len(a))
    ELSE IF n = 1 THEN a
    ELSE IF n = 2 THEN np_matmul(a, a)
    ELSE IF n = 3 THEN np_matmul(np_matmul(a, a), a)
    ELSE BinaryPower(a, n, <<>>, <<>>)
\* for n < 0 the inverse of a is raised to -n, and LinAlgError is raised
\* when a is singular to the factorisation
np_linalg_matrix_power(a, n, v) ==
    IF n < 0
    THEN LET r == np_linalg_inv(FMat(a), v)
         IN  IF r.exc # "" THEN r
             ELSE [exc |-> "", val |-> np_matrix_power(r.val, -n)]
    ELSE [exc |-> "", val |-> np_matrix_power(a, n)]

\* np.argmax: index of the first occurrence of the maximum, a nan being
\* the maximum
RECURSIVE ArgmaxFrom(_, _, _)
ArgmaxFrom(row, k, best) ==
    IF k > Len(row) THEN best
    ELSE ArgmaxFrom(row, k + 1,
                    IF ~IsNaN(row[best]) /\ (IsNaN(row[k]) \/ Gt(row[k], row[best]))
                    THEN k ELSE best)
\* slip: the last occurrence of the maximum wins
RECURSIVE ArgmaxLastFrom(_, _, _)
ArgmaxLastFrom(row, k, best) ==
    IF k > Len(row) THEN best
    ELSE ArgmaxLastFrom(row, k + 1, IF Lt(row[k], row[best]) THEN best ELSE k)
np_argmax_last(row) == ArgmaxLastFrom(row, 2, 1)
np_argmax(row) == ArgmaxFrom(row, 2, 1)

\* pandas Index.get_loc: position of the name, KeyError (0 here) if absent
get_loc(names, name) ==
    IF \E k \in 1..Len(names) : names[k] = name
    THEN CHOOSE k \in 1..Len(names) : names[k] = name
    ELSE 0


\* ---------------------------------------------------------------- inputs
SectorNames == <<"s1", "s2", "s3">>
Unknown == "zz"
\* a column name as the header row of the file holds it: the name with the
\* blanks before and after it (pandas keeps them in df.columns)
Padded(lead, name, trail) == <<lead, name, trail>>
\* str.strip(): the name without the blanks around it
str_strip(c) == c[2]
Header(n) == [k \in 1..n |-> Padded(0, SectorNames[k], 0)]
Names(n) == {SectorNames[k] : k \in 1..n}

NonZeroVals == {<<1, 2>>, <<2, 1>>}                \* flows / coefficients
OutVals == {<<0, 1>>, <<1, 1>>, <<2, 1>>}          \* total outputs
CVals == {<<1, 2>>, <<3, 2>>}                      \* perturbation fractions

SeqsUpTo(S, m) == UNION { [1..k -> S] : k \in 0..m }

\* the cells of a table of one or two sectors that hold a flow, and the
\* cells of a three-sector table that may: the ring 1 -> 2 -> 3 -> 1 with
\* the chord 1 -> 3
CellSets(n) == {Q \in SUBSET ((1..n) \X (1..n)) : Cardinality(Q) <= MaxNonZero}
RingCells == {<<1, 2>>, <<2, 3>>, <<3, 1>>, <<1, 3>>}
Table(n, P, f) ==
    [i \in 1..n |-> [j \in 1..n |-> IF <<i, j>> \in P THEN f[<<i, j>>] ELSE Zero]]

\* a pre-built matrix with a 1 on the diagonal, which makes I - A* singular
UnitCorner(n) ==
    [i \in 1..n |-> [j \in 1..n |-> IF i = 1 /\ j = 1 THEN One ELSE Zero]]

\* rows of the CSV file below its header row: a raw table ends with the
\* row of total outputs
FileRows(t, T, x) == IF t = "IO" THEN Append(T, x) ELSE T

Input(e, n, t, m, rows, ps, cs) ==
    [entry |-> e, header |-> Header(n), rows |-> rows,
     psector |-> ps, cvalue |-> cs, table |-> t, mode |-> m]

\* no perturbation, or the last sector perturbed by 1.0
OnePert(n) == {<<<<>>, <<>>>>, <<<<SectorNames[n]>>, <<One>>>>}

\* ----------------------------------------------------------------- state
VARIABLES
    inp,        \* the input file and the arguments of this run
    pc,         \* position of the run: start, parsed, init, read, pert,
                \* tech, ready, failed
    err,        \* the exception that ended the run, "" if none
    sectors, io_table, xoutput, amat, astar, smat, cstar,
    psector, cvalue, table, mode,      \* the fields of the IIM instance
    lapack,     \* the build of the linear algebra library this process
                \* runs on, 0 until np.linalg.inv is first called
    ret         \* the last query and what it returned

fields == <<sectors, io_table, xoutput, amat, astar, smat, cstar,
            psector, cvalue, table, mode>>
vars == <<inp, pc, err, fields, lapack, ret>>

NoRet == [op |-> "", args |-> <<>>, val |-> <<>>, exc |-> ""]

\* one or two sectors: every sparse table and every output row, the
\* constructor called directly with at most one perturbation
TableCases(t, m) ==
    \E n \in 1..2 :
      \E P \in CellSets(n), x \in [1..n -> OutVals], p \in OnePert(n) :
        \E f \in [P -> NonZeroVals] :
          /\ t = "A" => \A k \in 1..n : x[k] = One
          /\ inp = Input("api", n, t, m, FileRows(t, Table(n, P, f), x),
                         p[1], p[2])

\* three sectors: every table on the ring whose chord holds 0.5, with and
\* without a sector of zero output
RingCases(t, m) ==
    \E x \in {<<One, One, One>>, <<<<2, 1>>, One, Zero>>}, p \in OnePert(3) :
      \E f \in [RingCells -> NonZeroVals \cup {Zero}] :
        /\ f[<<1, 3>>] = <<1, 2>>
        /\ t = "A" => x = <<One, One, One>>
        /\ inp = Input("api", 3, t, m, FileRows(t, Table(3, RingCells, f), x),
                       p[1], p[2])

\* one or two sectors: every pair of perturbation lists (unknown names,
\* out-of-range fractions and unequal lengths included) with a plain
\* table, raw or pre-built, or a pre-built matrix whose I - A* is
\* singular, through the command-line driver and directly
PertCases(t, m) ==
    \E n \in 1..2, e \in {"main", "api"} :
      \E T \in {np_zeros2(n, n), UnitCorner(n)},
         ps \in SeqsUpTo(Names(n) \cup {Unknown}, MaxPert),
         cs \in SeqsUpTo(CVals, MaxPert) :
        /\ m = "Demand"
        /\ t = "IO" => T = np_zeros2(n, n)
        /\ inp = Input(e, n, t, m, FileRows(t, T, [k \in 1..n |-> <<2, 1>>]),
                       ps, cs)

\* two sectors that depend on each other only: the pre-built matrix
\* [[0, 0.8], [a21, 0]] with the second sector perturbed by 0.6, called
\* directly
Coupled(a21) == <<<<Zero, float(4, 5)>>, <<a21, Zero>>>>
CoupledCases(t, m) ==
    \E a21 \in {float(7, 10), float(1, 5)} :
      /\ t = "A"
      /\ inp = Input("api", 2, t, m, Coupled(a21), <<"s2">>, <<float(3, 5)>>)

\* a table written in decimals: the flows [[2, 1], [6, 8]] with every
\* output 10, raw or pre-built (the flows over 10)
IntMat(M) == [i \in 1..Len(M) |-> [j \in 1..Len(M) |-> <<M[i][j], 1>>]]
Tenths(M) ==
    [i \in 1..Len(M) |-> [j \in 1..Len(M) |-> float(M[i][j], 10)]]
DecimalFlows == {<<<<2, 1>>, <<6, 8>>>>}
DecimalCases(t, m) ==
    \E M \in DecimalFlows :
      \E p \in OnePert(Len(M)) :
        inp = Input("api", Len(M), t, m,
                    IF t = "IO"
                    THEN FileRows(t, IntMat(M), [k \in 1..Len(M) |-> <<10, 1>>])
                    ELSE Tenths(M),
                    p[1], p[2])

\* two sectors whose column names have blanks around them in the file
\* ("s1 , s2"), perturbed by the plain name or by the name with its blank
PaddedCases(t, m) ==
    \E e \in {"main", "api"}, lead \in 0..1, trail \in 0..1,
       ps \in {<<"s1">>, <<"s2">>, <<" s2">>} :
      /\ lead + trail >= 1
      /\ inp = [Input(e, 2, t, m,
                      FileRows(t, np_zeros2(2, 2), <<One, One>>), ps, <<One>>)
                EXCEPT !.header = <<Padded(0, "s1", trail),
                                    Padded(lead, "s2", 0)>>]

\* pre-built matrices whose I - A* has determinant zero: [[49, 49], [1, 1]],
\* [[22, 22], [15, 15]], [[3, 3], [1, 1]], [[5, 5], [3, 3]] and
\* [[1, 2, 3], [4, 5, 6], [7, 8, 9]]; and the matrix [[0.7, 0.3],
\* [0.3, 0.7]], whose I - A* has determinant zero in decimals and not in
\* doubles (1.0 - 0.7 is 0.30000000000000004)
DependentRows ==
    {IntMat(<<<<-48, -49>>, <<-1, 0>>>>), IntMat(<<<<-21, -22>>, <<-15, -14>>>>),
     IntMat(<<<<-2, -3>>, <<-1, 0>>>>), IntMat(<<<<-4, -5>>, <<-3, -2>>>>),
     <<<<float(7, 10), float(3, 10)>>, <<float(3, 10), float(7, 10)>>>>,
     IntMat(<<<<0, -2, -3>>, <<-4, -4, -6>>, <<-7, -8, -8>>>>)}
DependentCases(t, m) ==
    \E T \in DependentRows :
      \E p \in OnePert(Len(T)) :
        /\ t = "A"
        /\ inp = Input("api", Len(T), t, m, T, p[1], p[2])

\* one or two sectors, the first perturbed by a negative fraction or by
\* one that is no number ("-c -0.5", "-c inf", "-c -inf", "-c nan"),
\* through the command-line driver and directly
InfiniteCases(t, m) ==
    \E n \in 1..2, e \in {"main", "api"},
       c \in {<<-1, 2>>, <<1, 0>>, <<-1, 0>>, NaN} :
      inp = Input(e, n, t, m, FileRows(t, np_zeros2(n, n), [k \in 1..n |-> One]),
                  <<"s1">>, <<c>>)

Init ==
    /\ \E t \in {"IO", "A"}, m \in {"Demand", "Supply"} :
         \/ DependentCases(t, m)
         \/ InfiniteCases(t, m)
         \/ PaddedCases(t, m)
         \/ TableCases(t, m)
         \/ RingCases(t, m)
         \/ PertCases(t, m)
         \/ CoupledCases(t, m)
         \/ DecimalCases(t, m)
    /\ pc = "start"
    /\ err = ""
    /\ sectors = <<>> /\ io_table = <<>> /\ xoutput = <<>>
    /\ amat = <<>> /\ astar = <<>> /\ smat = <<>> /\ cstar = <<>>
    /\ psector = <<>> /\ cvalue = <<>> /\ table = "" /\ mode = ""
    /\ lapack = 0
    /\ ret = NoRet


Fail(e) == pc' = "failed" /\ err' = e

\* -------------------------------------------------- main.py: the CLI driver
\* _restricted_float accepts x exactly when 0.0 <= x <= 1.0
_restricted_float(x) == ~(Lt(x, Zero) \/ Gt(x, One))
\* _check_input accepts lists of the same size
_check_input(ps, cs) == ~(Len(ps) # Len(cs))

\* parse_arguments: -s and -c are required, every -c value goes through
\* _restricted_float (argparse turns its ArgumentTypeError into parser.error,
\* which exits), then _check_input raises RuntimeError.
parse_arguments ==
    /\ pc = "start" /\ inp.entry = "main"
    /\ IF inp.psector = <<>> \/ inp.cvalue = <<>>
          \/ \E k \in 1..Len(inp.cvalue) : ~_restricted_float(inp.cvalue[k])
       THEN Fail("SystemExit")
       ELSE IF ~_check_input(inp.psector, inp.cvalue)
       THEN Fail("RuntimeError")
       ELSE pc' = "parsed" /\ err' = err
    /\ UNCHANGED <<inp, fields, lapack, ret>>

\* ------------------------------------------------- iim.py: IIM.__init__
\* lines 39-49: the fields before the first helper runs
IIM_init ==
    /\ \/ pc = "start" /\ inp.entry = "api"
       \/ pc = "parsed"
    /\ sectors' = <<>> /\ io_table' = <<>> /\ xoutput' = <<>>
    /\ amat' = <<>> /\ astar' = <<>> /\ smat' = <<>> /\ cstar' = <<>>
    /\ psector' = <<>> /\ cvalue' = <<>>
    /\ table' = inp.table /\ mode' = inp.mode
    /\ pc' = "init"
    /\ UNCHANGED <<inp, err, lapack, ret>>

_read_io_table ==
    /\ pc = "init"
    /\ sectors' = [k \in 1..Len(inp.header) |-> str_strip(inp.header[k])]
    /\ IF table = "IO"
       THEN /\ xoutput' = inp.rows[Len(inp.rows)]
            /\ io_table' = SubSeq(inp.rows, 1, Len(inp.rows) - 1)
       ELSE /\ xoutput' = xoutput
            /\ io_table' = inp.rows
    /\ pc' = "read"
    /\ UNCHANGED <<inp, err, amat, astar, smat, cstar, psector, cvalue,
                   table, mode, lapack, ret>>

\* the zip loop of _create_perturbation from pair k on: the vector reached
\* and whether get_loc raised KeyError on the way
RECURSIVE PerturbLoop(_, _, _, _)
PerturbLoop(c, ps, cs, k) ==
    IF k > Len(ps) \/ k > Len(cs) THEN [cstar |-> c, ok |-> TRUE]
    ELSE LET indx == get_loc(sectors, ps[k])
         IN  IF indx = 0 THEN [cstar |-> c, ok |-> FALSE]
             ELSE PerturbLoop([c EXCEPT ![indx] = cs[k]], ps, cs, k + 1)

_create_perturbation ==
    /\ pc = "read"
    /\ LET n == Len(sectors)
           r == IF inp.psector # <<>>
                THEN PerturbLoop(np_zeros(n), inp.psector, inp.cvalue, 1)
                ELSE [cstar |-> np_zeros(n), ok |-> TRUE]
       IN  /\ cstar' = r.cstar
           /\ IF r.ok
              THEN /\ psector' = inp.psector /\ cvalue' = inp.cvalue
                   /\ pc' = "pert" /\ err' = err
              ELSE /\ psector' = psector /\ cvalue' = cvalue
                   /\ Fail("KeyError")
    /\ UNCHANGED <<inp, sectors, io_table, xoutput, amat, astar, smat,
                   table, mode, lapack, ret>>

\* slip: the division is not guarded against a zero output
TechCoeff_noGuard(T, x, n) ==
    [i \in 1..n |-> [j \in 1..n |-> Div(T[i][j], x[j])]]
TechCoeff(T, x, n) ==
    [i \in 1..n |-> [j \in 1..n |->
        IF x[j] # Zero THEN Div(T[i][j], x[j]) ELSE Zero]]

_tech_coeff_matrix ==
    /\ pc = "pert"
    /\ LET n == Len(sectors)
       IN  amat' = IF table = "IO" THEN TechCoeff(io_table, xoutput, n)
                   ELSE np_zeros2(n, n)
    /\ pc' = "tech"
    /\ UNCHANGED <<inp, err, sectors, io_table, xoutput, astar, smat, cstar,
                   psector, cvalue, table, mode, lapack, ret>>

\* slip: the row is normalised by the column's output
DemandCoeff_byColumn(T, x, n) ==
    [i \in 1..n |-> [j \in 1..n |->
        IF x[j] # Zero THEN Div(T[i][j], x[j]) ELSE Zero]]
DemandCoeff(T, x, n) ==
    [i \in 1..n |-> [j \in 1..n |->
        IF x[i] # Zero THEN Div(T[i][j], x[i]) ELSE Zero]]

InterdependencyMatrix ==
    IF mode = "Supply"
    THEN (IF table = "IO" THEN np_transpose(amat) ELSE io_table)
    ELSE (IF table = "IO" THEN DemandCoeff(io_table, xoutput, Len(sectors))
          ELSE io_table)

\* The builds on which np.linalg.inv computes the same for I - A* and for
\* A* (the two matrices a run inverts) are one run: the first of them
\* stands for them.
Inverses(a) ==
    Tup([v \in Builds |->
           <<np_linalg_inv(FMatSub(np_identity(Len(a)), a), v),
             np_linalg_inv(FMat(a), v)>>])

_interdepenency_matrix ==
    /\ pc = "tech"
    /\ \E a \in {InterdependencyMatrix} :
         \E inv \in {Inverses(a)} :
           \E v \in Builds :
             /\ \A w \in 1..(v - 1) : inv[w] # inv[v]
             /\ astar' = a
             /\ lapack' = v
             /\ IF inv[v][1].exc # ""
                THEN smat' = smat /\ Fail(inv[v][1].exc)
                ELSE /\ smat' = inv[v][1].val
                     /\ pc' = "ready" /\ err' = err
    /\ UNCHANGED <<inp, sectors, io_table, xoutput, amat, cstar,
                   psector, cvalue, table, mode, ret>>


\* ------------------------------------------------------ iim.py: queries
\* the inner loops "if j != i: di += M[i, j]" and "if i != j: rj += M[i, j]"
\* from column (row) k on, with the sum so far
RECURSIVE RowLoop(_, _, _, _)
RowLoop(M, i, j, di) ==
    IF j > Len(M) THEN di
    ELSE RowLoop(M, i, j + 1, IF j # i THEN Add(di, M[i][j]) ELSE di)

RECURSIVE ColLoop(_, _, _, _)
ColLoop(M, j, i, rj) ==
    IF i > Len(M) THEN rj
    ELSE ColLoop(M, j, i + 1, IF i # j THEN Add(rj, M[i][j]) ELSE rj)

\* delta / (n - 1.0)
VecDiv(v, d) == [k \in 1..Len(v) |-> Div(v[k], d)]

RowIndex(M) ==
    LET n == Len(sectors)
        delta == IF mode = "Demand" THEN [i \in 1..n |-> RowLoop(M, i, 1, Zero)]
                 ELSE np_zeros(n)
    IN  VecDiv(delta, <<n - 1, 1>>)

ColIndex(M) ==
    LET n == Len(sectors)
        rho == IF mode = "Demand" THEN [j \in 1..n |-> ColLoop(M, j, 1, Zero)]
               ELSE np_zeros(n)
    IN  VecDiv(rho, <<n - 1, 1>>)

dependency == RowIndex(astar)
influence == ColIndex(astar)
overall_dependency == RowIndex(smat)
overall_influence == ColIndex(smat)

\* slip: the comparison of the clamp is inverted
Clamp_lower(q) == [k \in 1..Len(q) |-> IF Lt(q[k], One) THEN One ELSE q[k]]
\* q[q > 1.0] = 1.0
Clamp(q) == [k \in 1..Len(q) |-> IF Gt(q[k], One) THEN One ELSE q[k]]
inoperability == Clamp(np_matvec(smat, cstar))

get(indx) ==
    <<inoperability[indx], dependency[indx], overall_dependency[indx],
      influence[indx], overall_influence[indx]>>

\* amat = np.linalg.matrix_power(self.astar, order) (amat_power here), and
\* amat[i, j] or the exception
amat_power(order) == np_linalg_matrix_power(astar, order, lapack)
Entry(r, i, j) == IF r.exc # "" THEN r ELSE [exc |-> "", val |-> r.val[i][j]]
interdependency_index(i, j, order) == Entry(amat_power(order), i, j)

max_nth_order_interdependency(n) ==
    LET am == np_matrix_power(astar, n)
    IN  [i \in 1..Len(sectors) |->
            LET j == np_argmax(am[i]) IN <<sectors[i], sectors[j], am[i][j]>>]

Returns(op, args, val) ==
    /\ ret' = [op |-> op, args |-> args, val |-> val, exc |-> ""]
    /\ UNCHANGED <<inp, pc, err, fields, lapack>>
Raises(op, args, exc) ==
    /\ ret' = [op |-> op, args |-> args, val |-> <<>>, exc |-> exc]
    /\ UNCHANGED <<inp, pc, err, fields, lapack>>

\* a constructed model whose caller holds no pending result
Idle == pc = "ready" /\ ret = NoRet

\* the caller has taken the returned value (or caught the exception)
Return ==
    /\ pc = "ready" /\ ret # NoRet
    /\ ret' = NoRet
    /\ UNCHANGED <<inp, pc, err, fields, lapack>>

QueryNames == {sectors[k] : k \in 1..Len(sectors)} \cup {Unknown}

Get ==
    /\ Idle
    /\ \E name \in QueryNames :
         LET indx == get_loc(sectors, name)
         IN  IF indx = 0 THEN Raises("get", <<name>>, "KeyError")
             ELSE Returns("get", <<name>>, get(indx))

Dependency == Idle /\ Returns("dependency", <<>>, dependency)
Influence == Idle /\ Returns("influence", <<>>, influence)
OverallDependency ==
    Idle /\ Returns("overall_dependency", <<>>, overall_dependency)
OverallInfluence ==
    Idle /\ Returns("overall_influence", <<>>, overall_influence)

\* slip: the product is written into c* (np.matmul(..., out=self.cstar))
inoperability_cstar_out == inoperability
\* c* after inoperability(): np.matmul allocates q, and the clamp writes
\* into q only
inoperability_cstar == cstar

Inoperability ==
    /\ Idle
    /\ ret' = [op |-> "inoperability", args |-> <<>>, val |-> inoperability,
               exc |-> ""]
    /\ cstar' = inoperability_cstar
    /\ UNCHANGED <<inp, pc, err, sectors, io_table, xoutput, amat, astar, smat,
                   psector, cvalue, table, mode, lapack>>

InterdependencyIndex ==
    /\ Idle
    /\ \E order \in (-MaxInverse)..MaxOrder :
         \E p \in {amat_power(order)} :
           \E isector \in QueryNames, jsector \in QueryNames :
             LET i == get_loc(sectors, isector)
                 j == get_loc(sectors, jsector)
                 a == <<isector, jsector, order>>
             IN  IF i = 0 \/ j = 0
                 THEN Raises("interdependency_index", a, "KeyError")
                 ELSE IF Entry(p, i, j).exc # ""
                 THEN Raises("interdependency_index", a, Entry(p, i, j).exc)
                 ELSE Returns("interdependency_index", a, Entry(p, i, j).val)

MaxNthOrderInterdependency ==
    /\ Idle
    /\ \E n \in (-MaxInverse)..MaxOrder :
         IF ~(n >= 1)
         THEN Raises("max_nth_order_interdependency", <<n>>, "AssertionError")
         ELSE Returns("max_nth_order_interdependency", <<n>>,
                      max_nth_order_interdependency(n))

Next ==
    \/ parse_arguments
    \/ IIM_init
    \/ _read_io_table
    \/ _create_perturbation
    \/ _tech_coeff_matrix
    \/ _interdepenency_matrix
    \/ Get
    \/ Dependency
    \/ Influence
    \/ OverallDependency
    \/ OverallInfluence
    \/ Inoperability
    \/ InterdependencyIndex
    \/ MaxNthOrderInterdependency
    \/ Return

Spec == Init /\ [][Next]_vars


\* ------------------------------------------------------------ properties
\* What the properties are stated in.  Sums are taken from the first term
\* to the last, every sum rounded.
RECURSIVE SumFrom(_, _, _)
SumFrom(s, k, acc) ==
    IF k > Len(s) THEN acc ELSE SumFrom(s, k + 1, Add(acc, s[k]))
SumSeq(s) == SumFrom(s, 1, Zero)

N == Len(inp.header)
RawT == SubSeq(inp.rows, 1, N)          \* the flows of a raw table
RawX == inp.rows[N + 1]                 \* its row of total outputs
OffDiagRow(M, i) == SumSeq([j \in 1..N |-> IF j = i THEN Zero ELSE M[i][j]])
OffDiagCol(M, j) == SumSeq([i \in 1..N |-> IF i = j THEN Zero ELSE M[i][j]])
RowTimes(M, i, v) == SumSeq([j \in 1..N |-> Mul(M[i][j], v[j])])
InUnit(a) == Le(Zero, a) /\ Le(a, One)
Finite(a) == ~IsNaN(a) /\ ~IsInf(a)

\* Exact arithmetic on doubles, for what a property says of the numbers
\* themselves: the product and the sum of two doubles, not rounded (the
\* mantissa m of <<sign, m, e>> takes any length).
LongMul(x, y) ==
    IF x = D0 \/ y = D0 THEN D0
    ELSE Canon(x[1] * y[1], BMul(x[2], y[2]), x[3] + y[3])
LongAdd(x, y) ==
    IF x = D0 THEN y
    ELSE IF y = D0 THEN x
    ELSE LET e == IF x[3] < y[3] THEN x[3] ELSE y[3]
             a == BShl(x[2], x[3] - e)
             b == BShl(y[2], y[3] - e)
         IN  IF x[1] = y[1] THEN Canon(x[1], BAdd(a, b), e)
             ELSE IF BCmp(a, b) >= 0 THEN Canon(x[1], BSub(a, b), e)
             ELSE Canon(y[1], BSub(b, a), e)
XMul(a, b) ==
    IF Short(a) /\ Short(b) THEN Rat(a[1] * b[1], a[2] * b[2])
    ELSE ToNumber(LongMul(FromNumber(a), FromNumber(b)))
XAdd(a, b) ==
    IF Short(a) /\ Short(b)
    THEN Rat(a[1] * b[2] + b[1] * a[2], a[2] * b[2])
    ELSE ToNumber(LongAdd(FromNumber(a), FromNumber(b)))
XSub(a, b) == XAdd(a, Neg(b))
XAbs(a) == IF Lt(a, Zero) THEN Neg(a) ELSE a
XPow2(k) == ToNumber(<<1, <<1>>, k>>)
RECURSIVE XDotFrom(_, _, _, _)
XDotFrom(u, v, k, s) ==
    IF k > Len(u) THEN s ELSE XDotFrom(u, v, k + 1, XAdd(s, XMul(u[k], v[k])))
XMatMul(A, B) ==
    Tup([i \in 1..Len(A) |-> Tup([j \in 1..Len(A) |->
        XDotFrom(A[i], Column(B, j), 1, Zero)])])
XMatSub(A, B) ==
    Tup([i \in 1..Len(A) |-> Tup([j \in 1..Len(A) |-> XSub(A[i][j], B[i][j])])])
XMatAbs(A) == Tup([i \in 1..Len(A) |-> Tup([j \in 1..Len(A) |-> XAbs(A[i][j])])])
\* row i of A^k: row i of the identity times A, k times
RECURSIVE XPowerRow(_, _, _)
XPowerRow(A, i, k) ==
    IF k = 0 THEN np_identity(Len(A))[i]
    ELSE CHOOSE out \in
           {Tup([j \in 1..Len(A) |-> XDotFrom(r, Column(A, j), 1, Zero)]) :
              r \in {XPowerRow(A, i, k - 1)}} : TRUE
\* determinant by expansion along the first row
DropAt(s, k) == [i \in 1..(Len(s) - 1) |-> IF i < k THEN s[i] ELSE s[i + 1]]
Minor(M, r, c) == [i \in 1..(Len(M) - 1) |-> DropAt(DropAt(M, r)[i], c)]
RECURSIVE XDet(_)
RECURSIVE XDetExpand(_, _)
XDetExpand(M, j) ==
    IF j > Len(M) THEN Zero
    ELSE XAdd(XMul(XMul(IF j % 2 = 1 THEN One ELSE Neg(One), M[1][j]),
                   XDet(Minor(M, 1, j))),
              XDetExpand(M, j + 1))
XDet(M) == IF Len(M) = 0 THEN One ELSE XDetExpand(M, 1)
\* I - A is singular: its determinant is zero
Singular(A) == XDet(XMatSub(np_identity(Len(A)), A)) = Zero
\* the largest entry of A in size
XMax(A) ==
    CHOOSE x \in {XAbs(A[i][j]) : i \in 1..Len(A), j \in 1..Len(A)} :
        \A i \in 1..Len(A), j \in 1..Len(A) : Le(XAbs(A[i][j]), x)

\* v is entry [i, j] of A^k up to the rounding of the products: k - 1
\* matrix products of N terms each, so v is within N k 2^-53 |A|^k[i, j] of
\* it
PowerEntry(v, A, i, j, k) ==
    \E d \in {XAbs(XSub(v, XPowerRow(A, i, k)[j]))} :
       \/ d = Zero
       \/ Le(XMul(d, XPow2(Mant)),
              XMul(<<Len(A) * k, 1>>, XPowerRow(XMatAbs(A), i, k)[j]))
\* B is the inverse of A up to the rounding of the solve: no entry of
\* A B - I is above 2^-40 max|A| max|B|
InverseOf(B, A) ==
    \E r \in {XMax(XMatSub(XMatMul(A, B), np_identity(Len(A))))} :
       \/ r = Zero
       \/ Le(XMul(r, XPow2(40)), XMul(XMax(A), XMax(B)))

TechBuilt == pc \in {"tech", "ready"} \/ (pc = "failed" /\ err = "LinAlgError")
AstarBuilt == pc = "ready" \/ (pc = "failed" /\ err = "LinAlgError")
Returned(op) == ret.op = op /\ ret.exc = ""

\* C1: inoperability() returns a vector with one entry per sector that
\* equals S.c* with every entry greater than 1 replaced by 1, so every
\* returned entry is at most 1.
C1_InoperabilityIsClampedProduct ==
    Returned("inoperability") =>
        /\ Len(ret.val) = N
        /\ \A i \in 1..N :
             /\ ret.val[i] = (IF Gt(RowTimes(smat, i, cstar), One) THEN One
                              ELSE RowTimes(smat, i, cstar))
             /\ Le(ret.val[i], One)

\* C2: A* follows the policy of input form and mode: raw + Demand divides
\* row i of the table by x[i] (0 when x[i] = 0), raw + Supply is the
\* transpose of A, a pre-built matrix is passed through in both modes.
C2_InterdependencyPolicy ==
    AstarBuilt =>
        /\ (table = "IO" /\ mode = "Demand") =>
             \A i \in 1..N, j \in 1..N :
               IF RawX[i] # Zero THEN Mul(astar[i][j], RawX[i]) = RawT[i][j]
               ELSE astar[i][j] = Zero
        /\ (table = "IO" /\ mode = "Supply") =>
             \A i \in 1..N, j \in 1..N : astar[i][j] = amat[j][i]
        /\ table = "A" => astar = inp.rows

C2_Witness ==
    /\ pc = "ready" /\ table = "IO" /\ mode = "Demand"
    /\ \E i \in 1..N, j \in 1..N : RawX[i] = Zero /\ RawT[i][j] # Zero
    /\ \E i \in 1..N, j \in 1..N :
         i # j /\ astar[i][j] # Zero /\ astar[i][j] # RawT[i][j]

\* C3: from a raw table the technical coefficient matrix is N x N with
\* A[i,j] = T[i,j]/x[j] where x[j] is non-zero and A[i,j] = 0 where
\* x[j] = 0; no entry is the outcome of a division by zero.
C3_TechnicalCoefficients ==
    (TechBuilt /\ table = "IO") =>
        /\ Len(amat) = N
        /\ \A i \in 1..N :
             /\ Len(amat[i]) = N
             /\ \A j \in 1..N :
                  /\ Finite(amat[i][j])
                  /\ IF RawX[j] # Zero
                     THEN Mul(amat[i][j], RawX[j]) = RawT[i][j]
                     ELSE amat[i][j] = Zero

C3_Witness ==
    /\ pc = "tech" /\ table = "IO"
    /\ \E i \in 1..N, j \in 1..N : RawX[j] = Zero /\ RawT[i][j] # Zero
    /\ \E i \in 1..N, j \in 1..N :
         i # j /\ amat[i][j] # Zero /\ amat[i][j] # RawT[i][j]

\* C4 as stated: with (I - A*) non-singular and every fraction in [0,1],
\* every component of inoperability() lies in [0,1].
C4_Original ==
    (Returned("inoperability") /\ \A k \in 1..N : InUnit(cstar[k])) =>
        \A i \in 1..N : InUnit(ret.val[i])

\* C4 amended: with (I - A*) non-singular and every fraction in [0,1],
\* every component of inoperability() is at most 1, and it is at least 0
\* for every sector whose row of S has no negative entry; there is no
\* lower clamp.
C4_UpperBoundOnly ==
    (Returned("inoperability") /\ \A k \in 1..N : InUnit(cstar[k])) =>
        \A i \in 1..N :
          /\ Le(ret.val[i], One)
          /\ (\A j \in 1..N : Le(Zero, smat[i][j])) => InUnit(ret.val[i])

C4_Witness ==
    /\ Returned("inoperability") /\ \A k \in 1..N : InUnit(cstar[k])
    /\ \E i \in 1..N : Lt(ret.val[i], Zero)
    /\ \E i \in 1..N :
         /\ \A j \in 1..N : Le(Zero, smat[i][j])
         /\ Lt(Zero, ret.val[i])


\* a fraction outside [0, 1]: nan is outside as well
OutOfRange(c) == ~InUnit(c)
BadPerturbation ==
    \/ \E k \in 1..Len(inp.cvalue) : OutOfRange(inp.cvalue[k])
    \/ Len(inp.psector) # Len(inp.cvalue)
NothingBuilt ==
    amat = <<>> /\ astar = <<>> /\ smat = <<>> /\ cstar = <<>> /\ pc # "ready"

\* C5: constructing a model with a fraction outside [0,1], or with name
\* and fraction lists of different lengths, fails before any of A, A*, S
\* is computed; no model and no perturbation vector is produced.
C5_Original == BadPerturbation => NothingBuilt

\* C6: an unknown sector name given to get() or in the perturbation list
\* raises and mutates nothing: get() leaves every field as it was, and a
\* failing perturbation list leaves the other fields as they were and no
\* entry of c* set by an earlier pair of the list.
C6_NoPartialMutation ==
    [][ /\ (ret' # ret /\ ret'.exc = "KeyError") => UNCHANGED fields
        /\ (err = "" /\ err' = "KeyError") =>
             /\ \A k \in 1..Len(cstar') : cstar'[k] = Zero
             /\ UNCHANGED <<sectors, io_table, xoutput, amat, astar, smat,
                            psector, cvalue, table, mode>> ]_vars

\* C7: whenever (I - A*) is singular (determinant zero) the resolvent step
\* fails with an error instead of producing S: the run has failed with no
\* S stored, and queries are answered only by a constructed model, which
\* has an S.  np.linalg.inv fails only on a pivot that is exactly 0.0, and
\* rounding can leave the last pivot of a singular matrix a little off
\* zero, on every build or on some.
C7_SingularFails ==
    /\ ret # NoRet => pc = "ready"
    /\ pc = "ready" => smat # <<>>
    /\ (astar # <<>> /\ ret = NoRet /\ Singular(astar)) =>
          pc = "failed" /\ err = "LinAlgError" /\ smat = <<>>

\* C8: for N >= 2 in Demand mode dependency and influence are the
\* off-diagonal row and column sums of A* divided by N-1, and the overall
\* variants the same sums over S; in Supply mode all four are the zero
\* vector of length N.
IndexIs(op, Sum(_, _), M) ==
    Returned(op) =>
        /\ Len(ret.val) = N
        /\ \A k \in 1..N :
             IF mode = "Demand"
             THEN N >= 2 => ret.val[k] = Div(Sum(M, k), <<N - 1, 1>>)
             ELSE ret.val[k] = Zero

C8_Indices ==
    /\ IndexIs("dependency", OffDiagRow, astar)
    /\ IndexIs("influence", OffDiagCol, astar)
    /\ IndexIs("overall_dependency", OffDiagRow, smat)
    /\ IndexIs("overall_influence", OffDiagCol, smat)

\* C9: for every order >= 1 max_nth_order_interdependency(order) returns
\* one triple per sector in sector order: the sector, the sector of the
\* lowest column holding the maximum of its row of A*^order, and that
\* maximum.  (A*^order is the float64 matrix np.linalg.matrix_power
\* returns; the maximum is within rounding of the entry of the exact
\* power.)
C9_MaxNthOrder ==
    Returned("max_nth_order_interdependency") =>
        \A P \in {np_matrix_power(astar, ret.args[1])} :
            /\ ret.args[1] >= 1
            /\ Len(ret.val) = N
            /\ \A i \in 1..N :
                 /\ ret.val[i][1] = sectors[i]
                 /\ \E j \in 1..N :
                      /\ ret.val[i][2] = sectors[j]
                      /\ ret.val[i][3] = P[i][j]
                      /\ \A k \in 1..N : Le(P[i][k], P[i][j])
                      /\ \A k \in 1..(j - 1) : P[i][k] # P[i][j]
                      /\ PowerEntry(ret.val[i][3], astar, i, j, ret.args[1])

C9_Witness ==
    /\ Returned("max_nth_order_interdependency") /\ ret.args[1] >= 2
    /\ \E P \in {np_matrix_power(astar, ret.args[1])} :
         \E i \in 1..N, j \in 1..N, k \in 1..N :
           /\ j < k /\ ret.val[i][2] = sectors[j] /\ ret.val[i][3] # Zero
           /\ P[i][k] = ret.val[i][3]

\* C10: interdependency_index(i, j, order) is entry [i,j] of A*^order:
\* A*[i,j] itself for order 1, the identity matrix entry for order 0, for
\* a higher order the entry of the exact power up to the rounding of the
\* matrix products, and for a negative order the same of the inverse of A*
\* that np.linalg.inv computed.
IndexOf(name) == CHOOSE k \in 1..N : str_strip(inp.header[k]) = name

C10_InterdependencyIndex ==
    Returned("interdependency_index") =>
        LET i == IndexOf(ret.args[1])
            j == IndexOf(ret.args[2])
            order == ret.args[3]
        IN  /\ order = 0 => ret.val = (IF i = j THEN One ELSE Zero)
            /\ order = 1 => ret.val = astar[i][j]
            /\ order >= 1 => PowerEntry(ret.val, astar, i, j, order)
            /\ order < 0 =>
                 \E r \in {np_linalg_inv(FMat(astar), lapack)} :
                   /\ r.exc = ""
                   /\ InverseOf(r.val, astar)
                   /\ PowerEntry(ret.val, r.val, i, j, -order)
                   /\ order = -1 => ret.val = r.val[i][j]

C10_Witness ==
    /\ Returned("interdependency_index") /\ ret.args[3] >= 4
    /\ ret.val # XPowerRow(astar, IndexOf(ret.args[1]), ret.args[3])
                     [IndexOf(ret.args[2])]

\* C11 as stated: for the pre-built Demand-mode model with
\* A* = [[0, 0.8], [0.7, 0]] and c* = [0, 0.6], inoperability() returns q
\* with |q[0] - 0.571| <= 0.001 and |q[1] - 0.714| <= 0.001.
Within(a, b, tol) == Le(Sub(a, b), tol) /\ Le(Sub(b, a), tol)
Milli(k) == float(k, 1000)
\* 2^-30, far above the rounding errors of S.c*
Tiny == <<1, 2^30>>
CoupledModel(a21) ==
    /\ Returned("inoperability") /\ mode = "Demand" /\ table = "A"
    /\ astar = Coupled(a21) /\ cstar = <<Zero, float(3, 5)>>

C11_Original ==
    CoupledModel(float(7, 10)) =>
        /\ Within(ret.val[1], Milli(571), Milli(1))
        /\ Within(ret.val[2], Milli(714), Milli(1))

\* C11 amended: for A* = [[0, 0.8], [0.7, 0]] and c* = [0, 0.6] the
\* product S.c* is [12/11, 15/11] (in float64: within 2^-30 of them), so
\* inoperability() returns [1, 1], both entries clamped; q within 0.001 of
\* [0.571, 0.714] is what it returns for A* = [[0, 0.8], [0.2, 0]] and the
\* same c*.
C11_CoupledSectors ==
    /\ CoupledModel(float(7, 10)) =>
          /\ Within(RowTimes(smat, 1, cstar), float(12, 11), Tiny)
          /\ Within(RowTimes(smat, 2, cstar), float(15, 11), Tiny)
          /\ ret.val = <<One, One>>
    /\ CoupledModel(float(1, 5)) =>
          /\ Within(ret.val[1], Milli(571), Milli(1))
          /\ Within(ret.val[2], Milli(714), Milli(1))

C11_Witness == CoupledModel(float(7, 10)) /\ ret.val[1] = One

\* C12: after construction no query changes the sector list, A, A*, S or
\* c* (nor any other field; the clamp of inoperability() in particular
\* leaves S and c* alone), so the query just answered, asked again, gives
\* the same outcome.
Val(v) == [val |-> v, exc |-> ""]
Exc(e) == [val |-> <<>>, exc |-> e]
Outcome(op, args) ==
    CASE op = "get" ->
           (IF get_loc(sectors, args[1]) = 0 THEN Exc("KeyError")
            ELSE Val(get(get_loc(sectors, args[1]))))
      [] op = "inoperability" -> Val(inoperability)
      [] op = "dependency" -> Val(dependency)
      [] op = "influence" -> Val(influence)
      [] op = "overall_dependency" -> Val(overall_dependency)
      [] op = "overall_influence" -> Val(overall_influence)
      [] op = "interdependency_index" ->
           (IF get_loc(sectors, args[1]) = 0 \/ get_loc(sectors, args[2]) = 0
            THEN Exc("KeyError")
            ELSE LET r == interdependency_index(get_loc(sectors, args[1]),
                                                get_loc(sectors, args[2]),
                                                args[3])
                 IN  IF r.exc # "" THEN Exc(r.exc) ELSE Val(r.val))
      [] op = "max_nth_order_interdependency" ->
           (IF args[1] < 1 THEN Exc("AssertionError")
            ELSE Val(max_nth_order_interdependency(args[1])))
SameIfRepeated ==
    ret # NoRet => [val |-> ret.val, exc |-> ret.exc] = Outcome(ret.op, ret.args)

C12_QueriesReadOnly ==
    /\ [][ pc = "ready" => UNCHANGED fields ]_vars
    /\ []SameIfRepeated

C12_Witness ==
    /\ Returned("inoperability") /\ Len(inp.psector) = 1
    /\ ret.val # np_matvec(smat, cstar)
    /\ cstar[get_loc(sectors, inp.psector[1])] = inp.cvalue[1]
    /\ \E i \in 1..N, j \in 1..N : i # j /\ smat[i][j] # Zero

\* the input names a sector that does not exist, and the input's I - A* is
\* singular
UnknownInList ==
    \E k \in 1..Len(inp.psector) : inp.psector[k] \notin Names(N)
InputAstar ==
    IF inp.table = "A" THEN inp.rows
    ELSE IF inp.mode = "Demand" THEN DemandCoeff(RawT, RawX, N)
    ELSE np_transpose(TechCoeff(RawT, RawX, N))
SingularInput == Singular(InputAstar)
ConstructorFailed == pc = "failed" /\ err \notin {"SystemExit", "RuntimeError"}

\* C13: construction runs ingest, A, A*, S, c* in this order: c* is built
\* only after S exists, and an input with both a singular (I - A*) and an
\* unknown perturbed sector fails with the singular-operator error.
C13_Original ==
    /\ cstar # <<>> => smat # <<>>
    /\ (ConstructorFailed /\ UnknownInList /\ SingularInput) =>
          err = "LinAlgError"

\* C14: with a single sector, dependency(), influence(),
\* overall_dependency() and overall_influence() never return the undefined
\* outcome of a division by N - 1 = 0: each returns 0 for the sector (or
\* raises), in Demand and in Supply mode.
C14_SingleSectorDefined ==
    (N = 1 /\ ret.op \in {"dependency", "influence", "overall_dependency",
                          "overall_influence"}) =>
        (ret.exc # "" \/ ret.val = <<Zero>>)

====
